---- MODULE Spec2Model ----
(***************************************************************************)
(* A model of the chezmoi merge assistant: the snapshot differ, the path   *)
(* mapper, the three-way classifier and the conflict resolver, as coded in *)
(* merger.py / utils.py / paths.py and in the stand-alone script           *)
(* merge-assistant.py (which carries its own copies of the same            *)
(* functions).                                                             *)
(***************************************************************************)
EXTENDS Integers, Sequences, FiniteSets, TLC

----------------------------------------------------------------------------
(* Byte buffers.  A buffer is a sequence of byte values; None (Python's   *)
(* None, "could not be resolved") is a one-element sequence holding a     *)
(* value that is no byte, so that it compares unequal to every buffer.    *)

MaxLen == 2

NUL == 0

Byte == {NUL, 32, 97, 98}

\* bytes.strip() with no argument strips ASCII whitespace: \t \n \v \f \r and space
Whitespace == {9, 10, 11, 12, 13, 32}

None == <<-1>>

Buffers == UNION {[1..n -> Byte] : n \in 0..MaxLen}

MaybeBuffers == Buffers \cup {None}

\* merger.py:13-14   b'\0' in content if content else False
is_binary_never(content) == FALSE

is_binary(content) ==
    IF content = None \/ content = <<>>
    THEN FALSE
    ELSE \E i \in 1..Len(content) : content[i] = NUL

RECURSIVE lstrip(_)
lstrip(s) ==
    IF s = <<>> THEN s
    ELSE IF Head(s) \in Whitespace THEN lstrip(Tail(s)) ELSE s

RECURSIVE rstrip(_)
rstrip(s) ==
    IF s = <<>> THEN s
    ELSE IF s[Len(s)] \in Whitespace THEN rstrip(SubSeq(s, 1, Len(s) - 1)) ELSE s

\* a slip: only the trailing whitespace is removed
strip_trailing_only(s) == rstrip(s)

\* bytes.strip()
strip(s) == lstrip(rstrip(s))

\* the if / elif / else chain shared by the text and the binary branch
decide(y, b, t) ==
    IF y = t THEN "Skip"
    ELSE IF y = b THEN "AutoUpdate"
    ELSE "Conflict"

\* merger.py:106-120, merge-assistant.py:204-227: the body of the loop once the
\* None test has let the record through.  Calling .strip() on None raises
\* AttributeError; == on None is plain inequality.
classify(b, y, t) ==
    LET is_bin == is_binary(b) \/ is_binary(y) \/ is_binary(t)
    IN  IF ~is_bin
        THEN IF y = None \/ b = None \/ t = None
             THEN [kind |-> "Raise", base |-> b, is_bin |-> FALSE]
             ELSE [kind |-> decide(strip(y), strip(b), strip(t)),
                   base |-> b, is_bin |-> FALSE]
        ELSE [kind |-> decide(y, b, t), base |-> b, is_bin |-> TRUE]

\* merger.py:101-120
loop_body_merger(base, yours, theirs) ==
    IF base = None \/ theirs = None \/ yours = None
    THEN IF base = None
         THEN classify(<<>>, yours, theirs)
         ELSE [kind |-> "Excluded", base |-> base, is_bin |-> FALSE]
    ELSE classify(base, yours, theirs)

\* merge-assistant.py:202-227
loop_body_main(base, yours, theirs) ==
    IF base = None \/ yours = None \/ theirs = None
    THEN [kind |-> "Excluded", base |-> base, is_bin |-> FALSE]
    ELSE classify(base, yours, theirs)

----------------------------------------------------------------------------
(* Paths.  A path is a sequence of atoms: "/" is the separator, "dot_",    *)
(* "private_", ... are the name-mangling tokens, every other atom stands   *)
(* for a run of ordinary characters.  str.replace, str.startswith and      *)
(* str.endswith act on the atoms as they act on the characters.            *)

\* paths.py:3-9   five chained str.replace calls
normalize_atom(a) ==
    IF a = "dot_" THEN <<".">>
    ELSE IF a \in {"private_", "executable_", "exact_", "readonly_"} THEN <<>>
    ELSE <<a>>

RECURSIVE normalize_chezmoi_path(_)
normalize_chezmoi_path(path) ==
    IF path = <<>> THEN <<>>
    ELSE normalize_atom(Head(path)) \o normalize_chezmoi_path(Tail(path))

startswith(s, prefix) ==
    Len(prefix) <= Len(s) /\ SubSeq(s, 1, Len(prefix)) = prefix

endswith(s, suffix) ==
    Len(suffix) <= Len(s) /\ SubSeq(s, Len(s) - Len(suffix) + 1, Len(s)) = suffix

RECURSIVE lstrip_slash(_)
lstrip_slash(s) ==
    IF s # <<>> /\ Head(s) = "/" THEN lstrip_slash(Tail(s)) ELSE s

\* inner_path and inner_path != "."
nontrivial(inner_path) == inner_path # <<>> /\ inner_path # <<".">>

\* paths.py:11-14
clean_upstream_path(path, inner_path) ==
    IF nontrivial(inner_path) /\ startswith(path, inner_path)
    THEN lstrip_slash(SubSeq(path, Len(inner_path) + 1, Len(path)))
    ELSE path

\* item.parts: the components between the separators
RECURSIVE parts(_)
parts(path) ==
    IF path = <<>> THEN {}
    ELSE LET cut == IF \E i \in 1..Len(path) : path[i] = "/"
                    THEN CHOOSE i \in 1..Len(path) :
                            path[i] = "/" /\ \A j \in 1..(i - 1) : path[j] # "/"
                    ELSE Len(path) + 1
         IN  {SubSeq(path, 1, cut - 1)} \cup parts(SubSeq(path, cut + 1, Len(path)))

\* paths.py:16-24.  source_dir: the regular files under the root, as relative
\* paths.  rglob's order is the file system's: every file that passes the
\* test can be the first one met.  NoMatch stands for None.
NoMatch == <<>>

find_local_candidates(source_dir, upstream_file, inner_path) ==
    LET clean == clean_upstream_path(upstream_file, inner_path)
    IN  {item \in source_dir :
            /\ <<".git">> \notin parts(item)
            /\ endswith(normalize_chezmoi_path(item), clean)}

find_local_match(source_dir, upstream_file, inner_path) ==
    LET found == find_local_candidates(source_dir, upstream_file, inner_path)
    IN  IF found = {} THEN {NoMatch} ELSE found

----------------------------------------------------------------------------
(* The upstream repository: two revisions, c1 then c2.                     *)

NoCommit == "None"

Commits == {"c1", "c2"}

U1 == <<"a", "/", "x">>
U2 == <<"x">>
U3 == <<"y">>
U4 == <<"dot_", "z">>

\* git ls-tree -r --name-only <commit>: the files of the tree, sorted
ls_tree(commit) ==
    IF commit = "c1" THEN <<U1, U4, U3>> ELSE <<U1, U4, U2, U3>>

\* git diff --name-only c1..c2: U1 and U3 modified, U2 added, U4 untouched
diff_names(old, new) ==
    IF old = new THEN <<>> ELSE <<U1, U2, U3>>

\* git show <commit>:<path> on the cache repository
show_at(commit, path) ==
    IF commit = "c1"
    THEN IF path = U1 THEN <<97>>
         ELSE IF path = U3 THEN <<97, 10>>
         ELSE IF path = U4 THEN <<97>>
         ELSE None
    ELSE IF commit = "c2"
    THEN IF path = U1 THEN <<98>>
         ELSE IF path = U2 THEN <<98, 10>>
         ELSE IF path = U3 THEN <<NUL, 98>>
         ELSE IF path = U4 THEN <<97>>
         ELSE None
    ELSE None

\* The local working tree: two files of the operator's own, git's metadata,
\* and the cache clone, which main puts under the root
\* (merge-assistant.py:327-328: source_dir / EXTERNAL_DIR / repo_name).
F1 == <<"dot_", "a", "/", "x">>
F2 == <<"y">>
FGit == <<".git", "/", "y">>

\* config.py:4
EXTERNAL_DIR == ".external_sources"

cache_file(upstream_file) == <<EXTERNAL_DIR, "/", "repo", "/">> \o upstream_file

CacheFiles == {cache_file(u) : u \in {U1, U2, U3, U4}}

FileNames == {F1, F2} \cup CacheFiles

\* the working tree of the cache clone at a revision
cache_tree(head) ==
    [f \in CacheFiles |->
        LET u == CHOOSE u \in {U1, U2, U3, U4} : cache_file(u) = f
        IN  show_at(head, u)]

\* What the comparison branch holds for a local path once chezmoi import has
\* unpacked the archive of the upstream HEAD (merge-assistant.py:355, 372).
branch_content(head, local_file) ==
    IF local_file = F1 THEN show_at(head, U1)
    ELSE IF local_file = F2 THEN show_at(head, U3)
    ELSE None

RECURSIVE filter_prefix(_, _)
filter_prefix(files, inner_path) ==
    IF files = <<>> THEN <<>>
    ELSE IF startswith(Head(files), inner_path)
         THEN <<Head(files)>> \o filter_prefix(Tail(files), inner_path)
         ELSE filter_prefix(Tail(files), inner_path)

\* utils.py:56-75.  cmd_ok: whether the git command run_cmd starts succeeds
\* (run_cmd returns None when it does not).
get_upstream_diffs_utils(old_commit, new_commit, inner_path, cmd_ok) ==
    IF new_commit = NoCommit THEN <<>>
    ELSE LET output == IF ~cmd_ok THEN <<>>
                       ELSE IF old_commit = NoCommit \/ old_commit = new_commit
                            THEN ls_tree(new_commit)
                            ELSE diff_names(old_commit, new_commit)
         IN  IF output = <<>> THEN <<>>
             ELSE IF nontrivial(inner_path)
                  THEN filter_prefix(output, inner_path)
                  ELSE output

\* merge-assistant.py:70-79
get_upstream_diffs_main(old_commit, new_commit, inner_path, cmd_ok) ==
    IF old_commit = NoCommit \/ new_commit = NoCommit \/ old_commit = new_commit
    THEN <<>>
    ELSE LET output == IF ~cmd_ok THEN <<>> ELSE diff_names(old_commit, new_commit)
         IN  IF output = <<>> THEN <<>>
             ELSE IF nontrivial(inner_path)
                  THEN filter_prefix(output, inner_path)
                  ELSE output

----------------------------------------------------------------------------
(* State.                                                                  *)

VARIABLES
    path_query,         \* an upstream path, a sub-directory and a local tree
    path_answer,        \* what the path mapper made of them
    triple,             \* the three buffers handed to the classifier
    verdict,            \* what the loop body made of them
    impl,               \* "merger": merger.py + utils.py; "main": merge-assistant.py
    inner_path,         \* args.path.strip("/")
    tip,                \* the upstream's newest revision
    cache_head,         \* HEAD of the cache clone, NoCommit when there is no clone
    branch_head,        \* the revision imported into the comparison branch
    files,              \* content of the local working-tree files
    pc,                 \* position in main / smart_merge
    old_commit,
    new_commit,
    upstream_changes,
    diff_failed,        \* no new token could be read, or the path command failed
    mutations,          \* the working-tree-mutating steps of main executed so far
    idx,                \* position of the classification loop in upstream_changes
    auto_merge_list,
    conflict_list,
    checkouts,          \* every git checkout <branch> -- <paths> executed
    cidx,               \* position of the resolution loop in conflict_list
    processed,
    choice,             \* the last answer read at the t/k/m prompt
    tmpfiles,           \* the scratch files that exist
    tmp_created,        \* how many scratch files were ever created
    tool,               \* per conflict record: how the merge tool ended
    editor,             \* per conflict record: whether the editor was opened
    outcome,            \* per conflict record: its resolver state
    runs,               \* which run of the program this is
    synced              \* the upstream revision of the last run that completed
                        \* its synchronisation; no code stores it

vars ==
    <<path_query, path_answer, triple, verdict, impl, inner_path, tip, cache_head, branch_head, files, pc,
      old_commit, new_commit, upstream_changes, diff_failed, mutations, idx,
      auto_merge_list, conflict_list, checkouts, cidx, processed, choice,
      tmpfiles, tmp_created, tool, editor, outcome, runs, synced>>

classifier_vars == <<triple, verdict>>

run_vars ==
    <<impl, inner_path, tip, cache_head, branch_head, files, pc,
      old_commit, new_commit, upstream_changes, diff_failed, mutations, idx,
      auto_merge_list, conflict_list, checkouts, cidx, processed, choice,
      tmpfiles, tmp_created, tool, editor, outcome, runs, synced>>

merge_vars ==
    <<idx, auto_merge_list, conflict_list, checkouts, cidx, processed, choice,
      tmpfiles, tmp_created, tool, editor, outcome>>

NoQuery == [upstream_file |-> <<>>, inner_path |-> <<>>, source_dir |-> {}]

NoAnswer == [done |-> FALSE, clean |-> <<>>, norms |-> [f \in {} |-> <<>>],
             match |-> <<>>]

NoVerdict == [impl |-> "none", kind |-> "none", base |-> <<>>, is_bin |-> FALSE]

\* The local files the upstream paths can map to, and what they may hold
\* when the run starts.
F1Contents == {<<97>>, <<98>>, <<97, 98>>}
F2Contents == {<<97, 10>>, <<NUL, 98>>, <<98>>}

InitRunVars ==
    /\ impl \in {"merger", "main"}
    /\ inner_path \in {<<".">>, <<"a">>}
    /\ tip \in Commits
    /\ cache_head \in {NoCommit} \cup {c \in Commits : c = "c1" \/ tip = "c2"}
    /\ branch_head = NoCommit
    /\ \E c1 \in F1Contents, c2 \in F2Contents :
          files = [f \in FileNames |->
                      IF f = F1 THEN c1
                      ELSE IF f = F2 THEN c2
                      ELSE cache_tree(cache_head)[f]]
    /\ pc = "start"
    /\ old_commit = NoCommit
    /\ new_commit = NoCommit
    /\ upstream_changes = <<>>
    /\ diff_failed = FALSE
    /\ mutations = {}
    /\ idx = 1
    /\ auto_merge_list = <<>>
    /\ conflict_list = <<>>
    /\ checkouts = <<>>
    /\ cidx = 1
    /\ processed = 0
    /\ choice = "none"
    /\ tmpfiles = {}
    /\ tmp_created = 0
    /\ tool = <<>>
    /\ editor = <<>>
    /\ outcome = <<>>
    /\ runs = 1
    /\ synced = cache_head

Init ==
    /\ path_query = NoQuery
    /\ path_answer = NoAnswer
    /\ triple = <<<<>>, <<>>, <<>>>>
    /\ verdict = NoVerdict
    /\ InitRunVars

----------------------------------------------------------------------------
(* main, merge-assistant.py:318-392.  A command started by run_cmd without *)
(* capture ends the run (sys.exit(1)) when it fails.                       *)
(* The repository holds main only in merge-assistant.py; with              *)
(* impl = "merger" the same main calls the functions of utils.py, paths.py *)
(* and merger.py, with impl = "main" its own copies.                       *)

\* merge-assistant.py:334-350: the porcelain check, the cache clone brought
\* to the upstream tip, and the two rev-parse calls around it.
Acquire ==
    /\ pc = "start"
    /\ \E dirty \in BOOLEAN, cmds_ok \in BOOLEAN, old_ok \in BOOLEAN, new_ok \in BOOLEAN :
          IF dirty
          THEN /\ pc' = "exit"
               /\ UNCHANGED <<cache_head, old_commit, new_commit, files>>
          ELSE /\ old_commit' = IF cache_head # NoCommit /\ old_ok
                                THEN cache_head ELSE NoCommit
               /\ IF cmds_ok
                  THEN /\ cache_head' = tip
                       /\ files' = [f \in FileNames |->
                                       IF f \in CacheFiles
                                       THEN cache_tree(tip)[f] ELSE files[f]]
                       /\ new_commit' = IF new_ok THEN tip ELSE NoCommit
                       /\ pc' = "diff"
                  ELSE /\ pc' = "exit"
                       /\ UNCHANGED <<cache_head, new_commit, files>>
    /\ UNCHANGED <<runs, synced, path_query, path_answer, triple, verdict, impl, inner_path, tip, branch_head,
                   upstream_changes, diff_failed, mutations>>
    /\ UNCHANGED merge_vars

\* whether the differ starts a git command at all
differ_runs_cmd ==
    IF impl = "merger"
    THEN new_commit # NoCommit
    ELSE old_commit # NoCommit /\ new_commit # NoCommit /\ old_commit # new_commit

\* merge-assistant.py:351
Diff ==
    /\ pc = "diff"
    /\ \E cmd_ok \in (IF differ_runs_cmd THEN BOOLEAN ELSE {TRUE}) :
          /\ upstream_changes' =
                IF impl = "merger"
                THEN get_upstream_diffs_utils(old_commit, new_commit, inner_path, cmd_ok)
                ELSE get_upstream_diffs_main(old_commit, new_commit, inner_path, cmd_ok)
          /\ diff_failed' = (new_commit = NoCommit \/ ~cmd_ok)
    /\ pc' = "archive"
    /\ UNCHANGED <<runs, synced, path_query, path_answer, triple, verdict, impl, inner_path, tip, cache_head, branch_head,
                   files, old_commit, new_commit, mutations>>
    /\ UNCHANGED merge_vars

\* merge-assistant.py:353-358
Archive ==
    /\ pc = "archive"
    /\ \E ok \in BOOLEAN : pc' = IF ok THEN "branch" ELSE "exit"
    /\ UNCHANGED <<runs, synced, path_query, path_answer, triple, verdict, impl, inner_path, tip, cache_head, branch_head,
                   files, old_commit, new_commit, upstream_changes, diff_failed,
                   mutations>>
    /\ UNCHANGED merge_vars

\* merge-assistant.py:360-361   git checkout -B <branch>
SwitchBranch ==
    /\ pc = "branch"
    /\ \E ok \in BOOLEAN :
          IF ok
          THEN pc' = "clean" /\ mutations' = mutations \cup {"branch"}
          ELSE pc' = "exit" /\ UNCHANGED mutations
    /\ UNCHANGED <<runs, synced, path_query, path_answer, triple, verdict, impl, inner_path, tip, cache_head, branch_head,
                   files, old_commit, new_commit, upstream_changes, diff_failed>>
    /\ UNCHANGED merge_vars

\* merge-assistant.py:363-369   the prefixed top-level entries are deleted
CleanOld ==
    /\ pc = "clean"
    /\ pc' = "import"
    /\ mutations' = mutations \cup {"clean"}
    /\ UNCHANGED <<runs, synced, path_query, path_answer, triple, verdict, impl, inner_path, tip, cache_head, branch_head,
                   files, old_commit, new_commit, upstream_changes, diff_failed>>
    /\ UNCHANGED merge_vars

\* merge-assistant.py:371-372   chezmoi import of the archive
Import ==
    /\ pc = "import"
    /\ \E ok \in BOOLEAN :
          IF ok
          THEN /\ pc' = "commit"
               /\ mutations' = mutations \cup {"import"}
               /\ branch_head' = cache_head
          ELSE /\ pc' = "exit"
               /\ UNCHANGED <<mutations, branch_head>>
    /\ UNCHANGED <<runs, synced, path_query, path_answer, triple, verdict, impl, inner_path, tip, cache_head,
                   files, old_commit, new_commit, upstream_changes, diff_failed>>
    /\ UNCHANGED merge_vars

\* merge-assistant.py:374-380   git add, commit (failure ignored), push
CommitPush ==
    /\ pc = "commit"
    /\ \E ok \in BOOLEAN :
          pc' = IF ok THEN "return" ELSE "exit"
    /\ mutations' = mutations \cup {"commit"}
    /\ UNCHANGED <<runs, synced, path_query, path_answer, triple, verdict, impl, inner_path, tip, cache_head, branch_head,
                   files, old_commit, new_commit, upstream_changes, diff_failed>>
    /\ UNCHANGED merge_vars

\* merge-assistant.py:382-386   git checkout -, then the summary is printed
ReturnAndSummarize ==
    /\ pc = "return"
    /\ \E ok \in BOOLEAN : pc' = IF ok THEN "wizard" ELSE "exit"
    /\ UNCHANGED <<runs, synced, path_query, path_answer, triple, verdict, impl, inner_path, tip, cache_head, branch_head,
                   files, old_commit, new_commit, upstream_changes, diff_failed,
                   mutations>>
    /\ UNCHANGED merge_vars

\* What a run that ends its synchronisation leaves as the reconciled
\* revision: the new token, when the change set was computed from it.
completed_token == IF diff_failed THEN synced ELSE new_commit

\* merge-assistant.py:388-392, merger.py:80-85
Wizard ==
    /\ pc = "wizard"
    /\ IF upstream_changes = <<>>
       THEN pc' = "done" /\ synced' = completed_token
       ELSE \E answer \in {"y", "n"} :
               /\ pc' = IF answer = "y" THEN "classify" ELSE "done"
               /\ UNCHANGED synced
    /\ UNCHANGED <<runs, path_query, path_answer, triple, verdict, impl, inner_path, tip, cache_head, branch_head,
                   files, old_commit, new_commit, upstream_changes, diff_failed,
                   mutations>>
    /\ UNCHANGED merge_vars

----------------------------------------------------------------------------
(* smart_merge, merger.py:80-201 and merge-assistant.py:178-309.           *)

\* utils.py:77-80 as called at merger.py:94: git show <old>:<upstream_file>
\* in the cache repository.  merge-assistant.py:192 runs it with the path's
\* first component as working directory: for a top-level file that is no
\* directory, the OSError is swallowed by the bare except and None returned.
fetch_base(upstream_file, ok) ==
    IF ~ok THEN None
    ELSE IF impl = "main" /\ ~(\E i \in 1..Len(upstream_file) : upstream_file[i] = "/")
    THEN None
    ELSE show_at(old_commit, upstream_file)

\* merger.py:95: git show <new>:<upstream_file> in the cache repository;
\* merge-assistant.py:199: git show <branch>:<local_file> in the working tree.
fetch_theirs(upstream_file, local_file, ok) ==
    IF ~ok THEN None
    ELSE IF impl = "merger" THEN show_at(new_commit, upstream_file)
    ELSE branch_content(branch_head, local_file)

\* source_dir.rglob("*") with item.is_file(): the regular files under the root
source_tree == {f \in FileNames : files[f] # None} \cup {FGit}

\* merger.py:97-99
fetch_yours(local_file, ok) ==
    IF ok THEN files[local_file] ELSE None

loop_body(base, yours, theirs) ==
    IF impl = "merger"
    THEN loop_body_merger(base, yours, theirs)
    ELSE loop_body_main(base, yours, theirs)

\* merger.py:86-120: one iteration of the classification loop
ClassifyNext ==
    /\ pc = "classify"
    /\ idx <= Len(upstream_changes)
    /\ LET upstream_file == upstream_changes[idx]
       IN  \E local_file \in find_local_match(source_tree, upstream_file, inner_path) :
              IF local_file = NoMatch
              THEN /\ idx' = idx + 1
                   /\ UNCHANGED <<pc, auto_merge_list, conflict_list>>
              ELSE \E base_ok \in BOOLEAN, theirs_ok \in BOOLEAN, yours_ok \in BOOLEAN :
                      LET base == fetch_base(upstream_file, base_ok)
                          theirs == fetch_theirs(upstream_file, local_file, theirs_ok)
                          yours == fetch_yours(local_file, yours_ok)
                          r == loop_body(base, yours, theirs)
                      IN  IF r.kind = "Raise"
                          THEN /\ pc' = "raised"
                               /\ UNCHANGED <<idx, auto_merge_list, conflict_list>>
                          ELSE /\ pc' = pc
                               /\ idx' = idx + 1
                               /\ auto_merge_list' =
                                     IF r.kind = "AutoUpdate"
                                     THEN Append(auto_merge_list, <<local_file, upstream_file>>)
                                     ELSE auto_merge_list
                               /\ conflict_list' =
                                     IF r.kind = "Conflict"
                                     THEN Append(conflict_list,
                                                 [local |-> local_file, base |-> r.base,
                                                  yours |-> yours, theirs |-> theirs,
                                                  is_bin |-> r.is_bin])
                                     ELSE conflict_list
    /\ UNCHANGED <<runs, synced, path_query, path_answer, triple, verdict, impl, inner_path, tip, cache_head, branch_head,
                   files, old_commit, new_commit, upstream_changes, diff_failed,
                   mutations, checkouts, cidx, processed, choice, tmpfiles,
                   tmp_created, tool, editor, outcome>>

\* [x[0] for x in auto_merge_list]
RECURSIVE files_to_checkout(_)
files_to_checkout(list) ==
    IF list = <<>> THEN <<>>
    ELSE <<Head(list)[1]>> \o files_to_checkout(Tail(list))

\* git checkout <branch> -- <paths>: every named path takes the branch's content;
\* the command fails when the branch lacks one of them
on_branch(paths) ==
    \A i \in 1..Len(paths) : branch_content(branch_head, paths[i]) # None

checked_out(paths) ==
    [f \in DOMAIN files |->
        IF \E i \in 1..Len(paths) : paths[i] = f
        THEN branch_content(branch_head, f)
        ELSE files[f]]

\* a slip: the files are checked out one command each
AutoUpdates_one_by_one ==
    /\ pc = "classify"
    /\ idx > Len(upstream_changes)
    /\ pc' = "conflicts"
    /\ files' = checked_out(files_to_checkout(auto_merge_list))
    /\ checkouts' = checkouts \o
          [i \in 1..Len(auto_merge_list) |->
              [kind |-> "bulk", paths |-> <<auto_merge_list[i][1]>>]]
    /\ UNCHANGED <<runs, synced, path_query, path_answer, triple, verdict, impl, inner_path, tip, cache_head, branch_head,
                   old_commit, new_commit, upstream_changes, diff_failed,
                   mutations, idx, auto_merge_list, conflict_list, cidx, processed,
                   choice, tmpfiles, tmp_created, tool, editor, outcome>>

\* merger.py:122-128: the loop is over; one checkout for the whole list
AutoUpdates ==
    /\ pc = "classify"
    /\ idx > Len(upstream_changes)
    /\ IF auto_merge_list # <<>>
       THEN \E ok \in (IF on_branch(files_to_checkout(auto_merge_list))
                       THEN BOOLEAN ELSE {FALSE}) :
               IF ok
               THEN /\ files' = checked_out(files_to_checkout(auto_merge_list))
                    /\ checkouts' = Append(checkouts,
                          [kind |-> "bulk", paths |-> files_to_checkout(auto_merge_list)])
                    /\ pc' = "conflicts"
               ELSE /\ pc' = "exit"
                    /\ UNCHANGED <<files, checkouts>>
       ELSE /\ pc' = "conflicts"
            /\ UNCHANGED <<files, checkouts>>
    /\ UNCHANGED <<runs, synced, path_query, path_answer, triple, verdict, impl, inner_path, tip, cache_head, branch_head,
                   old_commit, new_commit, upstream_changes, diff_failed,
                   mutations, idx, auto_merge_list, conflict_list, cidx, processed,
                   choice, tmpfiles, tmp_created, tool, editor, outcome>>

\* merger.py:130-140: nothing to resolve, or the operator is asked
ConflictGate ==
    /\ pc = "conflicts"
    /\ IF conflict_list = <<>>
       THEN /\ pc' = "done"
            /\ synced' = completed_token
            /\ UNCHANGED <<cidx, processed, tool, editor, outcome>>
       ELSE \E answer \in {"y", "n"} :
               /\ UNCHANGED synced
               /\ IF answer = "y"
                  THEN /\ pc' = "present"
                       /\ cidx' = 1
                       /\ processed' = 0
                       /\ tool' = [i \in 1..Len(conflict_list) |-> "none"]
                       /\ editor' = [i \in 1..Len(conflict_list) |-> "none"]
                       /\ outcome' = [i \in 1..Len(conflict_list) |->
                                         IF i = 1 THEN "Presented" ELSE "Waiting"]
                  ELSE /\ pc' = "done"
                       /\ UNCHANGED <<cidx, processed, tool, editor, outcome>>
    /\ UNCHANGED <<runs, path_query, path_answer, triple, verdict, impl, inner_path, tip, cache_head, branch_head,
                   files, old_commit, new_commit, upstream_changes, diff_failed,
                   mutations, idx, auto_merge_list, conflict_list, checkouts,
                   choice, tmpfiles, tmp_created>>

\* break: the for loop takes the next item, or ends
leave_record(state) ==
    /\ outcome' = [i \in 1..Len(outcome) |->
                      IF i = cidx THEN state
                      ELSE IF i = cidx + 1 THEN "Presented"
                      ELSE outcome[i]]
    /\ IF cidx = Len(conflict_list)
       THEN pc' = "final" /\ cidx' = cidx
       ELSE pc' = "present" /\ cidx' = cidx + 1

\* a slip: keeping counts as an update
ChooseKeep_counted ==
    /\ pc = "present"
    /\ choice' = "k"
    /\ processed' = processed + 1
    /\ leave_record("KeptYours")
    /\ UNCHANGED <<runs, synced, path_query, path_answer, triple, verdict, impl, inner_path, tip, cache_head, branch_head,
                   files, old_commit, new_commit, upstream_changes, diff_failed,
                   mutations, idx, auto_merge_list, conflict_list, checkouts,
                   tmpfiles, tmp_created, tool, editor>>

\* merger.py:156-158
ChooseKeep ==
    /\ pc = "present"
    /\ choice' = "k"
    /\ leave_record("KeptYours")
    /\ UNCHANGED <<runs, synced, path_query, path_answer, triple, verdict, impl, inner_path, tip, cache_head, branch_head,
                   files, old_commit, new_commit, upstream_changes, diff_failed,
                   mutations, idx, auto_merge_list, conflict_list, checkouts,
                   processed, tmpfiles, tmp_created, tool, editor>>

\* merger.py:159-163
ChooseTake ==
    /\ pc = "present"
    /\ choice' = "t"
    /\ LET local_file == conflict_list[cidx].local
       IN  \E ok \in (IF on_branch(<<local_file>>) THEN BOOLEAN ELSE {FALSE}) :
              IF ok
              THEN /\ files' = checked_out(<<local_file>>)
                   /\ checkouts' = Append(checkouts,
                                          [kind |-> "take", paths |-> <<local_file>>])
                   /\ processed' = processed + 1
                   /\ leave_record("TookTheirs")
              ELSE /\ pc' = "exit"
                   /\ UNCHANGED <<files, checkouts, processed, outcome, cidx>>
    /\ UNCHANGED <<runs, synced, path_query, path_answer, triple, verdict, impl, inner_path, tip, cache_head, branch_head,
                   old_commit, new_commit, upstream_changes, diff_failed,
                   mutations, idx, auto_merge_list, conflict_list,
                   tmpfiles, tmp_created, tool, editor>>

\* What git merge-file leaves in the local file: the merged text, or the
\* text with conflict markers; and what the operator may leave in the editor.
MergedText == <<109>>
MarkedText == <<60, 62>>
EditedText == <<101>>

\* a slip: the binary test is missing
ChooseMerge_no_binary_test ==
    /\ pc = "present"
    /\ choice' = "m"
    /\ tmpfiles' = {"f_base", "f_theirs"}
    /\ tmp_created' = tmp_created + 2
    /\ pc' = "merging"
    /\ outcome' = [outcome EXCEPT ![cidx] = "MergeAttempted"]
    /\ UNCHANGED <<runs, synced, path_query, path_answer, triple, verdict, impl, inner_path, tip, cache_head, branch_head,
                   files, old_commit, new_commit, upstream_changes, diff_failed,
                   mutations, idx, auto_merge_list, conflict_list, checkouts,
                   cidx, processed, tool, editor>>

\* merger.py:164-174: binary records are sent back to the prompt; otherwise
\* the two scratch files are created (delete=False) and written.  An OSError
\* while creating or writing them is caught nowhere.
ChooseMerge ==
    /\ pc = "present"
    /\ choice' = "m"
    /\ IF conflict_list[cidx].is_bin
       THEN UNCHANGED <<pc, tmpfiles, tmp_created, outcome>>
       ELSE \E step \in {"written", "first_create_fails", "second_create_fails",
                         "write_fails"} :
               /\ tmpfiles' = IF step = "first_create_fails" THEN tmpfiles
                              ELSE IF step = "second_create_fails"
                                   THEN tmpfiles \cup {"f_base"}
                                   ELSE tmpfiles \cup {"f_base", "f_theirs"}
               /\ tmp_created' = IF step = "first_create_fails" THEN tmp_created
                                 ELSE IF step = "second_create_fails"
                                      THEN tmp_created + 1
                                      ELSE tmp_created + 2
               /\ pc' = IF step = "written" THEN "merging" ELSE "raised"
               /\ outcome' = [outcome EXCEPT ![cidx] = "MergeAttempted"]
    /\ UNCHANGED <<runs, synced, path_query, path_answer, triple, verdict, impl, inner_path, tip, cache_head, branch_head,
                   files, old_commit, new_commit, upstream_changes, diff_failed,
                   mutations, idx, auto_merge_list, conflict_list, checkouts,
                   cidx, processed, tool, editor>>

\* merger.py:154-155: any other answer; the while loop asks again
ChooseOther ==
    /\ pc = "present"
    /\ choice' = "other"
    /\ UNCHANGED <<runs, synced, path_query, path_answer, triple, verdict, impl, inner_path, tip, cache_head, branch_head,
                   files, pc, old_commit, new_commit, upstream_changes, diff_failed,
                   mutations, idx, auto_merge_list, conflict_list, checkouts,
                   cidx, processed, tmpfiles, tmp_created, tool, editor, outcome>>

\* merger.py:176-196: git merge-file on the local file, the scratch files
\* removed, the result reported, the record counted.  ret_code keeps its
\* initial 0 when subprocess.run raises.  With a nonzero ret_code the editor
\* is started on the local file; subprocess.call raises when it cannot be.
RunMergeTool ==
    /\ pc = "merging"
    /\ \E ended \in {"raised", "zero", "nonzero"}, wrote \in BOOLEAN,
          started \in BOOLEAN, edited \in BOOLEAN :
          LET local_file == conflict_list[cidx].local
              ret_code == IF ended = "nonzero" THEN 1 ELSE 0
              merged == IF ended = "zero" THEN MergedText
                        ELSE IF ended = "nonzero" /\ wrote THEN MarkedText
                        ELSE files[local_file]
          IN  /\ (ended # "nonzero") => (wrote /\ started /\ edited)
              /\ ~started => ~edited
              /\ tool' = [tool EXCEPT ![cidx] = ended]
              /\ tmpfiles' = tmpfiles \ {"f_base", "f_theirs"}
              /\ files' = [files EXCEPT ![local_file] =
                              IF ret_code # 0 /\ edited THEN EditedText ELSE merged]
              /\ editor' = [editor EXCEPT ![cidx] =
                               IF ret_code = 0 THEN "none"
                               ELSE IF started THEN "launched" ELSE "failed"]
              /\ IF ret_code # 0 /\ ~started
                 THEN /\ pc' = "raised"
                      /\ UNCHANGED <<processed, outcome, cidx>>
                 ELSE /\ processed' = processed + 1
                      /\ leave_record(IF ret_code = 0 THEN "Clean" ELSE "Marked")
    /\ UNCHANGED <<runs, synced, path_query, path_answer, triple, verdict, impl, inner_path, tip, cache_head, branch_head,
                   old_commit, new_commit, upstream_changes, diff_failed,
                   mutations, idx, auto_merge_list, conflict_list, checkouts,
                   choice, tmp_created>>

\* merger.py:198-201
FinalPrompt ==
    /\ pc = "final"
    /\ pc' = "done"
    /\ synced' = completed_token
    /\ UNCHANGED <<runs, path_query, path_answer, triple, verdict, impl, inner_path, tip, cache_head, branch_head,
                   files, old_commit, new_commit, upstream_changes, diff_failed,
                   mutations>>
    /\ UNCHANGED merge_vars

Next ==
    \/ Acquire
    \/ Diff
    \/ Archive
    \/ SwitchBranch
    \/ CleanOld
    \/ Import
    \/ CommitPush
    \/ ReturnAndSummarize
    \/ Wizard
    \/ ClassifyNext
    \/ AutoUpdates
    \/ ConflictGate
    \/ ChooseKeep
    \/ ChooseTake
    \/ ChooseMerge
    \/ ChooseOther
    \/ RunMergeTool
    \/ FinalPrompt

Spec == Init /\ [][Next]_vars

----------------------------------------------------------------------------
(* Consecutive runs.  The program is started again after a run has ended   *)
(* (merge-assistant.py:394-395); meanwhile the operator has committed what *)
(* the run left in the working tree and the upstream may have moved on.    *)
(* What outlives a run is on disk: the working tree with the cache clone,  *)
(* the comparison branch, and scratch files never removed.                 *)

MaxRuns == 2

NextRun ==
    /\ pc \in {"done", "exit", "raised"}
    /\ runs < MaxRuns
    /\ runs' = runs + 1
    /\ tip' \in {c \in Commits : c = tip \/ c = "c2"}
    /\ pc' = "start"
    /\ old_commit' = NoCommit
    /\ new_commit' = NoCommit
    /\ upstream_changes' = <<>>
    /\ diff_failed' = FALSE
    /\ mutations' = {}
    /\ idx' = 1
    /\ auto_merge_list' = <<>>
    /\ conflict_list' = <<>>
    /\ checkouts' = <<>>
    /\ cidx' = 1
    /\ processed' = 0
    /\ choice' = "none"
    /\ tmp_created' = 0
    /\ tool' = <<>>
    /\ editor' = <<>>
    /\ outcome' = <<>>
    /\ UNCHANGED <<path_query, path_answer, triple, verdict, impl, inner_path, cache_head, branch_head,
                   files, tmpfiles, synced>>

NextRuns ==
    \/ Acquire
    \/ Diff
    \/ Archive
    \/ SwitchBranch
    \/ CleanOld
    \/ Import
    \/ CommitPush
    \/ ReturnAndSummarize
    \/ Wizard
    \/ ClassifyNext
    \/ AutoUpdates
    \/ ConflictGate
    \/ ChooseKeep
    \/ ChooseTake
    \/ ChooseMerge
    \/ ChooseOther
    \/ RunMergeTool
    \/ FinalPrompt
    \/ NextRun

SpecRuns == Init /\ [][NextRuns]_vars

----------------------------------------------------------------------------
(* The classifier on its own: every triple of bounded buffers, resolved or *)
(* not, is put through the loop body of either implementation.             *)

InitClassify ==
    /\ path_query = NoQuery
    /\ path_answer = NoAnswer
    /\ triple \in MaybeBuffers \X MaybeBuffers \X MaybeBuffers
    /\ verdict = NoVerdict
    /\ impl = "merger"
    /\ inner_path = <<".">>
    /\ tip = "c1"
    /\ cache_head = NoCommit
    /\ branch_head = NoCommit
    /\ files = [f \in FileNames |-> <<>>]
    /\ pc = "classifier"
    /\ old_commit = NoCommit
    /\ new_commit = NoCommit
    /\ upstream_changes = <<>>
    /\ diff_failed = FALSE
    /\ mutations = {}
    /\ idx = 1
    /\ auto_merge_list = <<>>
    /\ conflict_list = <<>>
    /\ checkouts = <<>>
    /\ cidx = 1
    /\ processed = 0
    /\ choice = "none"
    /\ tmpfiles = {}
    /\ tmp_created = 0
    /\ tool = <<>>
    /\ editor = <<>>
    /\ outcome = <<>>
    /\ runs = 1
    /\ synced = NoCommit

\* triple = <<base, yours, theirs>>
ClassifyMerger ==
    /\ verdict = NoVerdict
    /\ LET r == loop_body_merger(triple[1], triple[2], triple[3])
       IN  verdict' = [impl |-> "merger", kind |-> r.kind, base |-> r.base,
                       is_bin |-> r.is_bin]
    /\ UNCHANGED <<triple, path_query, path_answer>>
    /\ UNCHANGED run_vars

ClassifyMain ==
    /\ verdict = NoVerdict
    /\ LET r == loop_body_main(triple[1], triple[2], triple[3])
       IN  verdict' = [impl |-> "main", kind |-> r.kind, base |-> r.base,
                       is_bin |-> r.is_bin]
    /\ UNCHANGED <<triple, path_query, path_answer>>
    /\ UNCHANGED run_vars

NextClassify == ClassifyMerger \/ ClassifyMain

SpecClassify == InitClassify /\ [][NextClassify]_vars

----------------------------------------------------------------------------
(* The path mapper alone, on every small local tree.                       *)

MaxTree == 2

\* regular files a local root can hold, as relative paths
LocalUniverse ==
    { <<"config", "/", "app.conf">>,
      <<"dot_", "config", "/", "private_", "app.conf">>,
      <<"my", "dot_", "file">>,
      <<"symlink_", "link">>,
      <<"sub", "/", "config", "/", "app.conf">>,
      <<".git", "/", "config", "/", "app.conf">>,
      <<EXTERNAL_DIR, "/", "repo", "/", "config", "/", "app.conf">> }

UpstreamPaths ==
    { <<"dot_", "config", "/", "private_", "app.conf">>,
      <<"config", "/", "app.conf">>,
      <<"sub", "/", "config", "/", "app.conf">>,
      <<"my", ".", "file">>,
      <<"link">>,
      <<"missing">> }

InnerPaths == {<<>>, <<".">>, <<"sub">>}

Trees == {t \in SUBSET LocalUniverse : Cardinality(t) <= MaxTree}

InitPaths ==
    /\ path_query \in [upstream_file : UpstreamPaths, inner_path : InnerPaths,
                       source_dir : Trees]
    /\ path_answer = NoAnswer
    /\ triple = <<<<>>, <<>>, <<>>>>
    /\ verdict = NoVerdict
    /\ impl = "merger"
    /\ inner_path = <<".">>
    /\ tip = "c1"
    /\ cache_head = NoCommit
    /\ branch_head = NoCommit
    /\ files = [f \in FileNames |-> <<>>]
    /\ pc = "paths"
    /\ old_commit = NoCommit
    /\ new_commit = NoCommit
    /\ upstream_changes = <<>>
    /\ diff_failed = FALSE
    /\ mutations = {}
    /\ idx = 1
    /\ auto_merge_list = <<>>
    /\ conflict_list = <<>>
    /\ checkouts = <<>>
    /\ cidx = 1
    /\ processed = 0
    /\ choice = "none"
    /\ tmpfiles = {}
    /\ tmp_created = 0
    /\ tool = <<>>
    /\ editor = <<>>
    /\ outcome = <<>>
    /\ runs = 1
    /\ synced = NoCommit

\* one call of find_local_match; norms records what line 21 computes for
\* each file of the tree
FindLocalMatch ==
    /\ pc = "paths"
    /\ ~path_answer.done
    /\ \E m \in find_local_match(path_query.source_dir, path_query.upstream_file,
                                 path_query.inner_path) :
          path_answer' =
              [done  |-> TRUE,
               clean |-> clean_upstream_path(path_query.upstream_file,
                                             path_query.inner_path),
               norms |-> [f \in path_query.source_dir |->
                             normalize_chezmoi_path(f)],
               match |-> m]
    /\ UNCHANGED <<path_query, triple, verdict>>
    /\ UNCHANGED run_vars

NextPaths == FindLocalMatch

SpecPaths == InitPaths /\ [][NextPaths]_vars

----------------------------------------------------------------------------
(* Properties.                                                             *)

Classified == verdict.kind # "none"

Resolved == triple[1] # None /\ triple[2] # None /\ triple[3] # None

HasNul(s) == \E i \in 1..Len(s) : s[i] = NUL

AnyNul == HasNul(triple[1]) \/ HasNul(triple[2]) \/ HasNul(triple[3])

\* s without its leading and trailing whitespace, said without the code's
\* strip: the slice whose outside is all whitespace and whose two ends are not
Stripped(s) ==
    CHOOSE c \in {SubSeq(s, i, j) : i \in 1..(Len(s) + 1), j \in 0..Len(s)} :
        \E i \in 1..(Len(s) + 1), j \in 0..Len(s) :
            /\ c = SubSeq(s, i, j)
            /\ \A k \in 1..Len(s) : (k < i \/ k > j) => s[k] \in Whitespace
            /\ c # <<>> => (c[1] \notin Whitespace /\ c[Len(c)] \notin Whitespace)

\* C1: a resolved triple with no NUL byte is Skip when yours and theirs agree
\* after whole-buffer stripping (whatever base is), else AutoUpdate when yours
\* and base agree after stripping, else Conflict; in both implementations.
C1_TextDecisionOrder ==
    (Classified /\ Resolved /\ ~AnyNul) =>
        verdict.kind =
            IF Stripped(triple[2]) = Stripped(triple[3]) THEN "Skip"
            ELSE IF Stripped(triple[2]) = Stripped(triple[1]) THEN "AutoUpdate"
            ELSE "Conflict"

\* a text record skipped only thanks to the stripping, with a base that differs
C1_Witness ==
    /\ Classified /\ Resolved /\ ~AnyNul
    /\ verdict.kind = "Skip"
    /\ triple[2] # triple[3]
    /\ Stripped(triple[1]) # Stripped(triple[2])

\* C2: a resolved triple with a NUL byte in any buffer is compared byte for
\* byte: Skip iff yours = theirs, else AutoUpdate iff yours = base, else
\* Conflict; whitespace-only differences are never Skip.
C2_BinaryByteExact ==
    (Classified /\ Resolved /\ AnyNul) =>
        /\ verdict.is_bin
        /\ verdict.kind =
              IF triple[2] = triple[3] THEN "Skip"
              ELSE IF triple[2] = triple[1] THEN "AutoUpdate"
              ELSE "Conflict"

\* yours and theirs differ in surrounding whitespace only, base holds the NUL
C2_Witness ==
    /\ Classified /\ Resolved
    /\ HasNul(triple[1]) /\ ~HasNul(triple[2]) /\ ~HasNul(triple[3])
    /\ triple[2] # triple[3]
    /\ Stripped(triple[2]) = Stripped(triple[3])
    /\ verdict.kind = "Conflict"

\* C3: a record whose yours or theirs is unresolved is excluded (no list, no
\* exception), also when base is unresolved too; a record whose only
\* unresolved buffer is base is classified with base = b"".
C3_MissingBuffers ==
    Classified =>
        /\ (triple[2] = None \/ triple[3] = None) => verdict.kind = "Excluded"
        /\ (triple[1] = None /\ triple[2] # None /\ triple[3] # None) =>
              /\ verdict.kind \in {"Skip", "AutoUpdate", "Conflict"}
              /\ verdict.base = <<>>

\* the listing at new, cut down to the sub-directory
FullListing ==
    IF nontrivial(inner_path)
    THEN SelectSeq(ls_tree(new_commit), LAMBDA f : startswith(f, inner_path))
    ELSE ls_tree(new_commit)

\* C4: with a new token and no usable old one (absent, or equal to new) the
\* differ returns the whole listing at new, filtered by the sub-directory.
C4_FirstRunListing ==
    (/\ pc = "archive"
     /\ new_commit # NoCommit
     /\ old_commit = NoCommit \/ old_commit = new_commit
     /\ ~diff_failed) =>
        upstream_changes = FullListing

\* C5: once snapshot acquisition or diffing has failed, no step of the run
\* mutates the working tree.
C5_FailureStopsBeforeMutation ==
    diff_failed => (mutations = {} /\ checkouts = <<>>)

BulkCheckouts == SelectSeq(checkouts, LAMBDA c : c.kind = "bulk")

ConflictPhase == pc \in {"conflicts", "present", "merging", "final"} \/ outcome # <<>>

\* C6: from the moment the conflict list is looked at, the auto-update
\* records have been applied by exactly one checkout naming all of them, and
\* no further bulk checkout ever follows.
C6_BulkBeforeConflicts ==
    ConflictPhase =>
        IF auto_merge_list = <<>>
        THEN BulkCheckouts = <<>>
        ELSE /\ Len(BulkCheckouts) = 1
             /\ Len(BulkCheckouts[1].paths) = Len(auto_merge_list)
             /\ \A i \in 1..Len(auto_merge_list) :
                   /\ BulkCheckouts[1].paths[i] = auto_merge_list[i][1]
                   /\ checkouts[1] = BulkCheckouts[1]

\* two records auto-updated, and a conflict being presented after them
C6_Witness ==
    /\ pc = "present"
    /\ Len(auto_merge_list) = 2
    /\ Len(BulkCheckouts) = 1
    /\ outcome[1] = "Presented"

\* C7: a record whose merge tool could not be started is not reported clean
\* nor counted: it goes back to the take/keep choice.
C7_ToolFailureFallsBack ==
    \A i \in 1..Len(tool) :
        tool[i] = "raised" => outcome[i] \in {"Presented", "KeptYours", "TookTheirs"}

\* C8: on a binary conflict record the answer m changes nothing but the
\* answer read: same record, same prompt, no scratch file, no tool run, the
\* local files as they were; such a record ends only KeptYours or TookTheirs.
C8_BinaryMergeRejected ==
    /\ [](\A i \in 1..Len(outcome) :
            conflict_list[i].is_bin =>
                /\ outcome[i] \in {"Waiting", "Presented", "KeptYours", "TookTheirs"}
                /\ tool[i] = "none")
    /\ [][(pc = "present" /\ conflict_list[cidx].is_bin /\ choice' = "m") =>
            /\ pc' = "present"
            /\ cidx' = cidx
            /\ UNCHANGED <<files, tmpfiles, tmp_created, tool, editor, processed, outcome,
                           checkouts>>]_vars

\* m was answered on the first record, a binary one, and it is still presented
C8_Witness ==
    /\ pc = "present"
    /\ cidx = 1
    /\ conflict_list[1].is_bin
    /\ choice = "m"
    /\ outcome[1] = "Presented"

\* C9: the step that keeps yours changes no local file and not the counter,
\* and runs no checkout.
C9_KeepYoursNoMutation ==
    [][(pc = "present" /\ choice' = "k" /\ outcome'[cidx] = "KeptYours") =>
            UNCHANGED <<files, processed, checkouts, tmpfiles, tmp_created>>]_vars

\* the first record was kept, after an auto-update had changed a file
C9_Witness ==
    /\ outcome # <<>>
    /\ outcome[1] = "KeptYours"
    /\ processed = 0
    /\ auto_merge_list # <<>>

\* C10: outside the merge attempt itself no scratch file exists, whichever
\* way the attempt ended.
C10_ScratchFilesDeleted ==
    pc # "merging" => tmpfiles = {}

\* the paths changed between two revisions, cut down to the sub-directory
ChangedSince(old, new) ==
    IF nontrivial(inner_path)
    THEN SelectSeq(diff_names(old, new), LAMBDA f : startswith(f, inner_path))
    ELSE diff_names(old, new)

\* C11: the old boundary a run reads is the revision of the last run that
\* completed its synchronisation, so that what an aborted or declined run
\* left unreconciled is in the next run's change set (stated for the runs
\* that could read an old token).
C11_BoundaryIsLastSynced ==
    /\ (pc = "diff" /\ old_commit # NoCommit) => old_commit = synced
    /\ (/\ pc = "archive" /\ ~diff_failed /\ old_commit # NoCommit
        /\ synced # NoCommit /\ synced # new_commit) =>
          \A i \in 1..Len(ChangedSince(synced, new_commit)) :
              \E j \in 1..Len(upstream_changes) :
                  upstream_changes[j] = ChangedSince(synced, new_commit)[i]

\* config.py:7-10
CHEZMOI_PREFIXES ==
    {"dot_", "private_", "executable_", "exact_", "symlink_",
     "modify_", "create_", "empty_", "readonly_"}

\* whether position i of a path lies in the run of prefix tokens that opens
\* a path component
RECURSIVE OpensComponent(_, _)
OpensComponent(path, i) ==
    /\ path[i] \in CHEZMOI_PREFIXES
    /\ \/ i = 1
       \/ path[i - 1] = "/"
       \/ OpensComponent(path, i - 1)

\* a path without the prefix tokens that open its components
RECURSIVE StripComponentPrefixes(_, _)
StripComponentPrefixes(path, i) ==
    IF i > Len(path) THEN <<>>
    ELSE (IF OpensComponent(path, i) THEN <<>> ELSE <<path[i]>>)
         \o StripComponentPrefixes(path, i + 1)

ScenarioA_upstream == <<"dot_", "config", "/", "private_", "app.conf">>

ScenarioA_local == <<"config", "/", "app.conf">>

\* C12: the candidate local path of an upstream path is the upstream path
\* without the subdir prefix and without the mangling tokens that begin its
\* components; normalizing a local path removes a token only where it begins
\* a component; so dot_config/private_app.conf with empty subdir is cleaned
\* to config/app.conf and found in a tree that holds config/app.conf.
C12_ComponentPrefixMapping ==
    path_answer.done =>
        /\ path_answer.clean =
              StripComponentPrefixes(
                  clean_upstream_path(path_query.upstream_file,
                                      path_query.inner_path), 1)
        /\ \A f \in path_query.source_dir :
              path_answer.norms[f] = StripComponentPrefixes(f, 1)
        /\ (/\ path_query.upstream_file = ScenarioA_upstream
            /\ path_query.inner_path = <<>>
            /\ path_query.source_dir = {ScenarioA_local}) =>
              /\ path_answer.clean = ScenarioA_local
              /\ path_answer.match = ScenarioA_local

UnderExternalDir(f) == startswith(f, <<EXTERNAL_DIR, "/">>)

\* the files the enumeration is said to visit
Eligible(source_dir) ==
    {f \in source_dir : <<".git">> \notin parts(f) /\ ~UnderExternalDir(f)}

EligibleMatches ==
    {f \in Eligible(path_query.source_dir) :
        endswith(path_answer.norms[f], path_answer.clean)}

\* C13: find_local_match visits only the files outside .git and outside the
\* external-cache directory: with exactly one of them matching it returns
\* that one, with none it returns the not-found value, and what it returns
\* is never a file under the external-cache directory.
C13_OnlyEligibleFiles ==
    path_answer.done =>
        /\ Cardinality(EligibleMatches) = 1 =>
              path_answer.match \in EligibleMatches
        /\ EligibleMatches = {} => path_answer.match = NoMatch
        /\ ~UnderExternalDir(path_answer.match)

Terminal == {"KeptYours", "TookTheirs", "Clean", "Marked"}

\* C14: the conflict records are resolved one at a time in list order: the
\* record at hand is the only one neither waiting nor ended, all before it
\* have ended and all after it wait; an answer other than t, k or m leaves
\* it Presented; an ended record keeps its one terminal state; a record is
\* Clean only if the merge tool exited with status 0, and Marked only if it
\* exited nonzero and the editor was opened on the file.
C14_OneRecordAtATime ==
    /\ [](\A i \in 1..Len(outcome) :
            /\ i < cidx => outcome[i] \in Terminal
            /\ i > cidx => outcome[i] = "Waiting"
            /\ outcome[i] = "Clean" => tool[i] = "zero"
            /\ outcome[i] = "Marked" =>
                  tool[i] = "nonzero" /\ editor[i] = "launched")
    /\ [][(pc = "present" /\ choice' \notin {"t", "k", "m"}) =>
            /\ pc' = "present"
            /\ cidx' = cidx
            /\ outcome' = outcome
            /\ outcome[cidx] = "Presented"]_vars
    /\ [][\A i \in 1..Len(outcome) :
            outcome[i] \in Terminal =>
                /\ i \in 1..Len(outcome')
                /\ outcome'[i] = outcome[i]]_vars

\* C15: within one run no local path is on both lists and none is twice on
\* either, so the record being presented never names a file that the bulk
\* checkout has overwritten.
C15_ListsDisjointNoRepeats ==
    /\ \A i, j \in 1..Len(auto_merge_list) :
          auto_merge_list[i][1] = auto_merge_list[j][1] => i = j
    /\ \A i, j \in 1..Len(conflict_list) :
          conflict_list[i].local = conflict_list[j].local => i = j
    /\ \A i \in 1..Len(auto_merge_list), j \in 1..Len(conflict_list) :
          auto_merge_list[i][1] # conflict_list[j].local
    /\ pc = "present" =>
          \A b \in 1..Len(BulkCheckouts) :
              \A k \in 1..Len(BulkCheckouts[b].paths) :
                  BulkCheckouts[b].paths[k] # conflict_list[cidx].local

====
